---- MODULE Spec2Model ----
(***************************************************************************)
(* Model of app/youtube/service.go: the youtube Service.  Do runs one      *)
(* pass of procChannels immediately and then one per ticker signal until   *)
(* the context is cancelled or a pass fails.  procChannels walks the       *)
(* configured feeds, classifies every listed entry (Exist, then            *)
(* CheckProcessed), downloads and saves the new ones, and for a changed    *)
(* feed trims the store (removeOld) and republishes the RSS document.      *)
(*                                                                         *)
(* The collaborators (ChannelService, Downloader, Store, RSSFileStore,     *)
(* the filesystem) are interfaces; their results are chosen                *)
(* nondeterministically among what the interface allows.  The store keeps  *)
(* real state: the set of stored entries and of processed markers per      *)
(* channel.  A video is named by a number and a larger number is a more    *)
(* recent video.                                                           *)
(***************************************************************************)
EXTENDS Integers, Sequences, FiniteSets, TLC

\* ------------------------------------------------------------- bounds
MaxPasses == 2       \* passes of procChannels one run of Do may start
ExtraVideos == 2     \* videos a channel lists beyond keep(feed)
MaxFaults == 1       \* collaborator calls that may fail or misreport in one run
MaxDays == 10        \* an entry is published at most this many days before or after now

\* ------------------------------------------------------ configuration
KeepPerChannel == 1

Feeds == << [ID |-> 1, Keep |-> 0], [ID |-> 2, Keep |-> 2] >>

NumFeeds == Len(Feeds)

FeedIDs == {Feeds[k].ID : k \in 1..NumFeeds}

keep(fi) == IF fi.Keep > 0 THEN fi.Keep ELSE KeepPerChannel

FeedByID(f) == CHOOSE fi \in {Feeds[k] : k \in 1..NumFeeds} : fi.ID = f

Videos(f) == 1..(keep(FeedByID(f)) + ExtraVideos)

\* ------------------------------------------------------------ helpers
Min(a, b) == IF a < b THEN a ELSE b

MaxOf(S) == CHOOSE x \in S : \A y \in S : y <= x

MinOf(S) == CHOOSE x \in S : \A y \in S : x <= y

RECURSIVE SortDesc(_)
SortDesc(S) == IF S = {} THEN << >> ELSE << MaxOf(S) >> \o SortDesc(S \ {MaxOf(S)})

RECURSIVE DropOldest(_, _)
DropOldest(S, n) == IF n <= 0 \/ S = {} THEN S ELSE DropOldest(S \ {MinOf(S)}, n - 1)

\* ChannelService.Get: the entries of a feed, newest first, no video twice
Listings(f) == {SortDesc(S) : S \in SUBSET Videos(f)}

\* what ChannelService.Get may return for a feed under the script sc
Offered(sc, f) == IF sc.free THEN Listings(f) ELSE {sc.listing[f]}

VARIABLES
    store,            \* Store: channel -> set of stored entries (video ids)
    marks,            \* Store: channel -> set of processed markers
    removeOldExact,   \* every Store.RemoveOld so far kept exactly the n most recent
    faults,           \* collaborator calls that have failed or misreported so far
    doPC,             \* Do: "start", "proc" (inside procChannels), "select", "returned"
    ret,              \* value Do returned: "none", "ctxErr", "procErr"
    cancelled,        \* ctx.Done() is closed
    tickC,            \* signals pending in tick.C
    passes,           \* passes of procChannels started
    ticksConsumed,    \* signals received from tick.C
    running,          \* invocations of procChannels in progress
    feedIdx,          \* procChannels: index of the feed being processed
    phase,            \* procChannels: "list", "loop", "after", "trim", "rss", "end"
    entries,          \* procChannels: the listing of the current feed
    i,                \* procChannels: index of the current entry
    changed,          \* procChannels: changed
    processed,        \* procChannels: processed
    allStats,         \* procChannels: allStats
    last,             \* what the latest iteration of the entry loop did
    lastTrim,         \* what the latest removeOld did
    tickLog,          \* per feed, what this pass has done for it so far
    history,          \* over the whole run: the entries whose download or marker write failed
    stamp,            \* the publication timestamp of one downloaded entry, before and after
    script            \* whether the channels list freely, and if not what each one lists

storeVars == << store, marks, removeOldExact, faults, history >>
doVars == << doPC, ret, passes, ticksConsumed, running >>
envVars == << cancelled, tickC, stamp, script >>
procVars == << feedIdx, phase, entries, i, changed, processed, allStats, last, lastTrim, tickLog >>
vars == << store, marks, removeOldExact, faults, doPC, ret, cancelled, tickC, passes, ticksConsumed,
           running, feedIdx, phase, entries, i, changed,
           processed, allStats, last, lastTrim, tickLog, history, stamp, script >>

\* ------------------------------------------------------------- values
ZeroStats == [entries |-> 0, processed |-> 0, added |-> 0, removed |-> 0, ignored |-> 0, skipped |-> 0]

NoLast == [outcome |-> "none", feed |-> 0, vid |-> 0, before |-> 0,
           existCalled |-> FALSE, exists |-> FALSE, exErr |-> FALSE,
           cpCalled |-> FALSE, found |-> FALSE, procErr |-> FALSE,
           dlCalled |-> FALSE, dlErr |-> FALSE,
           saveCalled |-> FALSE, saveErr |-> FALSE, saveOk |-> FALSE,
           spCalled |-> FALSE, spErr |-> FALSE]

\* files: the paths Store.RemoveOld returned; fails: those (by position) os.Remove
\* fails for; attempts: the calls of os.Remove; removed: the value removeOld returns
NoTrim == [feed |-> 0, keepArg |-> 0, err |-> FALSE, files |-> 0, fails |-> {},
           attempts |-> 0, removed |-> 0]

\* state: "pending", "listfail" (ChannelService.Get failed), "done"
\* saved: a Store.Save returned without error; mutated: the stored set was changed
\* trimmed: -1 Store.RemoveOld not called, n >= 0 the entries it removed
\* loaded: -2 Store.Load not called, -1 it failed, n >= 0 the entries it returned
\* published: -1 RSSFileStore.Save not called, n >= 0 the items of the document handed to it
NoLog == [state |-> "pending", listed |-> FALSE, saved |-> FALSE, mutated |-> FALSE,
          trimmed |-> 0 - 1, loaded |-> 0 - 2, published |-> 0 - 1]

FreshLog == [f \in FeedIDs |-> NoLog]

\* dlFailed: <<feed, video>> for which Downloader.Get has failed at some time
\* spFailed: <<feed, video>> saved while Store.SetProcessed failed
NoHistory == [dlFailed |-> {}, spFailed |-> {}]

\* one entry on its way from Downloader.Get to Store.Save: published as listed, the
\* two readings of the clock, and the Published value handed to Store.Save
NoStamp == [at |-> "none", published |-> 0, since |-> 0, now |-> 0, saved |-> 0]

\* ---------------------------------------------------- Store (interface)
\* Store.Exist: <<exists, failed>>; the answer is true when it does not fail
StoreExist(f, v, b) ==
    {<< v \in store[f], FALSE >>} \cup (IF b > 0 THEN {<< x, TRUE >> : x \in BOOLEAN} ELSE {})

\* Store.CheckProcessed: <<found, failed>>
StoreCheckProcessed(f, v, b) ==
    {<< v \in marks[f], FALSE >>} \cup (IF b > 0 THEN {<< x, TRUE >> : x \in BOOLEAN} ELSE {})

\* Store.Save: <<ok, failed>>; ok says the entry was newly inserted
StoreSave(f, v, b) ==
    {<< v \notin store[f], FALSE >>} \cup (IF b > 0 THEN {<< FALSE, TRUE >>} ELSE {})

\* Store.RemoveOld(channel, n): <<entries removed, file paths returned, failed>>.
\* Without a failure all but the n most recent entries go; with one only some may.
StoreRemoveOld(f, n, b) ==
    LET excess == IF Cardinality(store[f]) > n THEN Cardinality(store[f]) - n ELSE 0
    IN  {<< excess, excess, FALSE >>}
        \cup (IF b > 0 THEN {<< r, excess, TRUE >> : r \in 0..excess} ELSE {})

\* Store.Load(channel, max): the number of entries returned, or -1 on failure.  It
\* returns the max most recent entries, or, misreporting, none
StoreLoad(f, max, b) ==
    {Min(max, Cardinality(store[f]))} \cup (IF b > 0 THEN {0, 0 - 1} ELSE {})

\* what each result costs of the budget of faults
Cost(failed) == IF failed THEN 1 ELSE 0

Budget == MaxFaults - faults

\* ------------------------------------------------ decisions of the code
\* the entry loop stops once processed reaches keep
LimitReachedLate(p, fi) == p > keep(fi)

LimitReached(p, fi) == p >= keep(fi)

\* a failing ChannelService.Get skips the feed (continue); it does not end the pass
ListErrorAborts(listErr) == listErr

ListFatal(listErr) == FALSE

\* var allStats stats: every pass starts from the zero value
CarriedStats(prev) == prev

FreshStats(prev) == ZeroStats

\* the check after Store.Exist tests err, the listing's error, which is nil inside the loop
ExistFatal(listErr, exErr) == listErr

NoExistCheck(exists, exErr) == FALSE

DuplicateByExist(exists, exErr) == exists

NoProcessedCheck(found, procErr) == FALSE

DuplicateByProcessedInverted(found, procErr) == (~procErr) /\ ~found

DuplicateByProcessed(found, procErr) == (~procErr) /\ found

\* a failed download ends the iteration before processed++
DownloadErrorIgnored(downErr) == FALSE

DownloadFailed(downErr) == downErr

\* time.Since(entry.Published) < time.Hour*24, in hours; then Published = time.Now()
Day == 24

ResetPublishedEitherSide(published, since, now) ==
    IF since - published < Day /\ published - since < Day THEN now ELSE published

ResetPublished(published, since, now) ==
    IF since - published < Day THEN now ELSE published

SaveNeverFatal(saveErr) == FALSE

SaveFatal(saveErr) == saveErr

\* changed = true after any Store.Save that did not fail
MarkChangedIfNew(ok) == ok

MarkChanged(ok) == TRUE

\* if changed { removeOld, RSSFeed, RSSFileStore.Save }
TrimAndPublishAlways(c) == TRUE

TrimAndPublish(c) == c

RemoveOldKeepTwoMore(fi) == keep(fi) + 2

RemoveOldKeepNoMargin(fi) == keep(fi)

\* removeOld asks the store to keep keep+1 entries
RemoveOldKeep(fi) == keep(fi) + 1

\* the loop of removeOld over the n files returned: os.Remove for each, continue on
\* a failure, removed++ otherwise: <<calls of os.Remove, removed>>
RECURSIVE RemoveLoopBreak(_, _, _, _, _)
RemoveLoopBreak(k, n, fails, a, r) ==
    IF k > n THEN << a, r >>
    ELSE IF k \in fails THEN << a + 1, r >>
    ELSE RemoveLoopBreak(k + 1, n, fails, a + 1, r + 1)

RemoveFilesUntilFailure(n, fails) == RemoveLoopBreak(1, n, fails, 0, 0)

RECURSIVE RemoveLoop(_, _, _, _, _)
RemoveLoop(k, n, fails, a, r) ==
    IF k > n THEN << a, r >>
    ELSE IF k \in fails THEN RemoveLoop(k + 1, n, fails, a + 1, r)
    ELSE RemoveLoop(k + 1, n, fails, a + 1, r + 1)

RemoveFiles(n, fails) == RemoveLoop(1, n, fails, 0, 0)

\* RSSFeed loads at most keep entries
RSSFeedMaxOneMore(fi) == keep(fi) + 1

RSSFeedMax(fi) == keep(fi)

\* the document goes to RSSFileStore.Save whenever RSSFeed returned no error
PublishRSS(rssErr, items) == ~rssErr

\* the select of Do takes ctx.Done() only when it sits at the select
CancelObservedInPass(pc, c) == pc \in {"select", "proc"} /\ c

CancelObserved(pc, c) == pc = "select" /\ c

\* tick.C holds one signal; the ticker drops a signal when it is full
TickSendQueued(c) == IF c < 2 THEN c + 1 ELSE c

TickSend(c) == 1

\* Do calls procChannels once before its loop
NoInitialPass == FALSE

InitialPass == TRUE

\* ---------------------------------------------------------------- Init
\* The store at start, one case for all channels: empty; the keep+1 oldest listed
\* videos, saved before markers existed; the keep+1 newest listed videos, with their
\* markers; keep+1 videos older than any the channel still lists (numbers <= 0).
Oldest(f) == 1..(keep(FeedByID(f)) + 1)

Newest(f) == ExtraVideos..(keep(FeedByID(f)) + ExtraVideos)

Legacy(f) == (0 - keep(FeedByID(f)))..0

InitStores ==
    { [st |-> [f \in FeedIDs |-> {}],        mk |-> [f \in FeedIDs |-> {}]],
      [st |-> [f \in FeedIDs |-> Oldest(f)], mk |-> [f \in FeedIDs |-> {}]],
      [st |-> [f \in FeedIDs |-> Newest(f)], mk |-> [f \in FeedIDs |-> Newest(f)]],
      [st |-> [f \in FeedIDs |-> Legacy(f)], mk |-> [f \in FeedIDs |-> {}]] }

\* all of Init but the store and the script of the listings
Constructed ==
    /\ removeOldExact = TRUE /\ faults = 0
    /\ doPC = "start" /\ ret = "none"
    /\ cancelled = FALSE /\ tickC = 0
    /\ passes = 0 /\ ticksConsumed = 0 /\ running = 0
    /\ feedIdx = 0 /\ phase = "end" /\ entries = << >> /\ i = 0
    /\ changed = FALSE /\ processed = 0
    /\ allStats = ZeroStats /\ last = NoLast /\ lastTrim = NoTrim
    /\ tickLog = FreshLog
    /\ history = NoHistory /\ stamp = NoStamp

Init ==
    /\ \E s \in InitStores : store = s.st /\ marks = s.mk
    /\ script = [free |-> TRUE, listing |-> [f \in FeedIDs |-> << >>]]
    /\ removeOldExact = TRUE /\ faults = 0
    /\ doPC = "start" /\ ret = "none"
    /\ cancelled = FALSE /\ tickC = 0
    /\ passes = 0 /\ ticksConsumed = 0 /\ running = 0
    /\ feedIdx = 0 /\ phase = "end" /\ entries = << >> /\ i = 0
    /\ changed = FALSE /\ processed = 0
    /\ allStats = ZeroStats /\ last = NoLast /\ lastTrim = NoTrim
    /\ tickLog = FreshLog
    /\ history = NoHistory /\ stamp = NoStamp

\* ------------------------------------------------------------------ Do
\* procChannels is entered: var allStats stats, then the loop over s.Feeds
BeginPass ==
    /\ doPC' = "proc"
    /\ passes' = passes + 1
    /\ running' = running + 1
    /\ allStats' = FreshStats(allStats)
    /\ feedIdx' = 1 /\ phase' = "list" /\ entries' = << >> /\ i' = 0
    /\ changed' = FALSE /\ processed' = 0
    /\ last' = NoLast /\ lastTrim' = NoTrim /\ tickLog' = FreshLog

\* Do: the ticker is created and the first pass starts at once
DoStart ==
    /\ doPC = "start"
    /\ IF InitialPass
       THEN BeginPass
       ELSE /\ doPC' = "select"
            /\ UNCHANGED << passes, running >>
            /\ UNCHANGED procVars
    /\ UNCHANGED << ret, ticksConsumed >>
    /\ UNCHANGED storeVars
    /\ UNCHANGED envVars

\* Do: case <-tick.C
DoSelectTick ==
    /\ doPC = "select"
    /\ tickC > 0
    /\ passes < MaxPasses
    /\ tickC' = tickC - 1
    /\ ticksConsumed' = ticksConsumed + 1
    /\ BeginPass
    /\ UNCHANGED << ret, cancelled, stamp, script >>
    /\ UNCHANGED storeVars

\* Do: case <-ctx.Done(): return ctx.Err()
DoSelectCancel ==
    /\ doPC # "returned"
    /\ CancelObserved(doPC, cancelled)
    /\ doPC' = "returned"
    /\ ret' = "ctxErr"
    /\ running' = IF doPC = "proc" THEN running - 1 ELSE running
    /\ UNCHANGED << passes, ticksConsumed >>
    /\ UNCHANGED storeVars
    /\ UNCHANGED envVars
    /\ UNCHANGED procVars

\* ---------------------------------------------------------- environment
\* the caller cancels ctx while Do runs
Cancel ==
    /\ ~cancelled
    /\ doPC \in {"proc", "select"}
    /\ cancelled' = TRUE
    /\ UNCHANGED << tickC, stamp, script >>
    /\ UNCHANGED storeVars
    /\ UNCHANGED doVars
    /\ UNCHANGED procVars

\* the ticker fires (it runs from time.NewTicker to the deferred tick.Stop)
TimerFire ==
    /\ doPC \in {"proc", "select"}
    /\ tickC' = TickSend(tickC)
    /\ UNCHANGED << cancelled, stamp, script >>
    /\ UNCHANGED storeVars
    /\ UNCHANGED doVars
    /\ UNCHANGED procVars

\* -------------------------------------------------------- procChannels
\* the loop over s.Feeds moves on to the next feed, or ends; the locals of the
\* feed that is done are dead
NextFeed ==
    /\ IF feedIdx < NumFeeds
       THEN feedIdx' = feedIdx + 1 /\ phase' = "list"
       ELSE feedIdx' = feedIdx /\ phase' = "end"
    /\ entries' = << >> /\ i' = 0
    /\ changed' = FALSE /\ processed' = 0
    /\ last' = NoLast /\ lastTrim' = NoTrim

\* entries, err := s.ChannelService.Get(...); on error: continue
ProcList ==
    /\ doPC = "proc" /\ phase = "list"
    /\ LET f == Feeds[feedIdx].ID IN
       \E listErr \in {FALSE} \cup {x \in {TRUE} : Budget > 0}, l \in Offered(script, f) :
          IF listErr
          THEN /\ l = << >>
               /\ faults' = faults + 1
               /\ tickLog' = [tickLog EXCEPT ![f].state = "listfail", ![f].listed = TRUE]
               /\ IF ListFatal(listErr)
                  THEN /\ doPC' = "returned" /\ ret' = "procErr" /\ running' = running - 1
                       /\ UNCHANGED << passes, ticksConsumed >>
                       /\ UNCHANGED << feedIdx, phase, entries, i, changed, processed,
                                       last, lastTrim >>
                  ELSE NextFeed /\ UNCHANGED doVars
          ELSE /\ faults' = faults
               /\ UNCHANGED doVars
               /\ tickLog' = [tickLog EXCEPT ![f].listed = TRUE]
               /\ changed' = FALSE /\ processed' = 0
               /\ feedIdx' = feedIdx
               /\ IF Len(l) > 0 THEN entries' = l /\ i' = 1 /\ phase' = "loop"
                                ELSE entries' = << >> /\ i' = 0 /\ phase' = "after"
               /\ last' = NoLast /\ lastTrim' = NoTrim
    /\ UNCHANGED allStats
    /\ UNCHANGED << store, marks, removeOldExact, history >>
    /\ UNCHANGED envVars

\* the range loop takes the next entry, or ends
NextEntry ==
    /\ IF i < Len(entries) THEN entries' = entries /\ i' = i + 1 /\ phase' = "loop"
                           ELSE entries' = << >> /\ i' = 0 /\ phase' = "after"
    /\ UNCHANGED feedIdx

\* the iteration ends at `break`
EntryBreak(rec, c) ==
    /\ faults' = faults + c
    /\ last' = [rec EXCEPT !.outcome = "break"]
    /\ allStats' = [allStats EXCEPT !.entries = @ + 1]
    /\ entries' = << >> /\ i' = 0 /\ phase' = "after"
    /\ UNCHANGED << feedIdx, changed, processed, tickLog >>
    /\ UNCHANGED << store, marks, removeOldExact, history >>
    /\ UNCHANGED doVars

\* the entry is a duplicate: allStats.skipped++, processed++, continue
EntrySkip(rec, c) ==
    /\ faults' = faults + c
    /\ last' = [rec EXCEPT !.outcome = "skipped"]
    /\ allStats' = [allStats EXCEPT !.entries = @ + 1, !.skipped = @ + 1]
    /\ processed' = processed + 1
    /\ NextEntry
    /\ UNCHANGED << changed, tickLog >>
    /\ UNCHANGED << store, marks, removeOldExact, history >>
    /\ UNCHANGED doVars

\* Downloader.Get failed: allStats.ignored++, continue
EntryIgnore(rec, c) ==
    /\ faults' = faults + c
    /\ last' = [rec EXCEPT !.outcome = "ignored"]
    /\ allStats' = [allStats EXCEPT !.entries = @ + 1, !.ignored = @ + 1]
    /\ history' = [history EXCEPT !.dlFailed = @ \cup {<< rec.feed, rec.vid >>}]
    /\ NextEntry
    /\ UNCHANGED << changed, processed, tickLog >>
    /\ UNCHANGED << store, marks, removeOldExact >>
    /\ UNCHANGED doVars

\* procChannels returns an error in the middle of the loop and Do returns it wrapped
EntryFatal(rec, c) ==
    /\ faults' = faults + c
    /\ last' = [rec EXCEPT !.outcome = "fatal"]
    /\ allStats' = [allStats EXCEPT !.entries = @ + 1]
    /\ processed' = IF rec.dlCalled THEN processed + 1 ELSE processed
    /\ doPC' = "returned" /\ ret' = "procErr" /\ running' = running - 1
    /\ UNCHANGED << passes, ticksConsumed >>
    /\ UNCHANGED << feedIdx, phase, entries, i, changed, tickLog >>
    /\ UNCHANGED << store, marks, removeOldExact, history >>

\* the entry was downloaded and Store.Save returned; then SetProcessed, allStats.added++
EntryAdd(rec, f, v, ok, saveErr, spErr, c) ==
    /\ faults' = faults + c
    /\ last' = [rec EXCEPT !.outcome = "added"]
    /\ allStats' = [allStats EXCEPT !.entries = @ + 1, !.added = @ + 1]
    /\ processed' = processed + 1
    /\ store' = IF saveErr THEN store ELSE [store EXCEPT ![f] = @ \cup {v}]
    /\ marks' = IF spErr THEN marks ELSE [marks EXCEPT ![f] = @ \cup {v}]
    /\ history' = IF spErr THEN [history EXCEPT !.spFailed = @ \cup {<< f, v >>}]
                           ELSE history
    /\ changed' = (changed \/ MarkChanged(ok))
    /\ tickLog' = [tickLog EXCEPT ![f].saved = @ \/ ~saveErr,
                                  ![f].mutated = @ \/ ok]
    /\ NextEntry
    /\ UNCHANGED removeOldExact
    /\ UNCHANGED doVars

\* one iteration of `for i, entry := range entries`
ProcEntry ==
    /\ doPC = "proc" /\ phase = "loop"
    /\ LET fi == Feeds[feedIdx]
           f == fi.ID
           v == entries[i]
           r0 == [NoLast EXCEPT !.feed = f, !.vid = v, !.before = processed]
       IN
       IF LimitReached(processed, fi)
       THEN EntryBreak(r0, 0)
       ELSE \E ex \in StoreExist(f, v, Budget) :
            LET r1 == [r0 EXCEPT !.existCalled = TRUE, !.exists = ex[1], !.exErr = ex[2]]
                c1 == Cost(ex[2])
            IN
            IF ExistFatal(FALSE, ex[2])
            THEN EntryFatal(r1, c1)
            ELSE IF DuplicateByExist(ex[1], ex[2])
            THEN EntrySkip(r1, c1)
            ELSE \E cp \in StoreCheckProcessed(f, v, Budget - c1) :
                 LET r2 == [r1 EXCEPT !.cpCalled = TRUE, !.found = cp[1], !.procErr = cp[2]]
                     c2 == c1 + Cost(cp[2])
                 IN
                 IF DuplicateByProcessed(cp[1], cp[2])
                 THEN EntrySkip(r2, c2)
                 ELSE \E dlErr \in {FALSE} \cup {x \in {TRUE} : Budget - c2 > 0} :
                      LET r3 == [r2 EXCEPT !.dlCalled = TRUE, !.dlErr = dlErr]
                          c3 == c2 + Cost(dlErr)
                      IN
                      IF DownloadFailed(dlErr)
                      THEN EntryIgnore(r3, c3)
                      ELSE \E sv \in StoreSave(f, v, Budget - c3) :
                           LET r4 == [r3 EXCEPT !.saveCalled = TRUE, !.saveOk = sv[1],
                                                !.saveErr = sv[2]]
                               c4 == c3 + Cost(sv[2])
                           IN
                           IF SaveFatal(sv[2])
                           THEN EntryFatal(r4, c4)
                           ELSE \E spErr \in {FALSE} \cup {x \in {TRUE} : Budget - c4 > 0} :
                                EntryAdd([r4 EXCEPT !.spCalled = TRUE, !.spErr = spErr],
                                         f, v, sv[1], sv[2], spErr, c4 + Cost(spErr))
    /\ UNCHANGED lastTrim
    /\ UNCHANGED envVars

\* after the entry loop: allStats.processed += processed; if changed { ... }
ProcAfter ==
    /\ doPC = "proc" /\ phase = "after"
    /\ allStats' = [allStats EXCEPT !.processed = @ + processed]
    /\ IF TrimAndPublish(changed)
       THEN /\ phase' = "trim"
            /\ processed' = 0 /\ last' = NoLast
            /\ UNCHANGED << feedIdx, entries, i, changed, lastTrim, tickLog >>
       ELSE /\ NextFeed
            /\ tickLog' = [tickLog EXCEPT ![Feeds[feedIdx].ID].state = "done"]
    /\ UNCHANGED storeVars
    /\ UNCHANGED doVars
    /\ UNCHANGED envVars

\* removed := s.removeOld(feedInfo); allStats.removed += removed
removeOld ==
    /\ doPC = "proc" /\ phase = "trim"
    /\ LET fi == Feeds[feedIdx]
           f == fi.ID
           n == RemoveOldKeep(fi)
       IN
       \E ro \in StoreRemoveOld(f, n, Budget) :
       \E fails \in SUBSET (1..ro[2]) :   \* the files os.Remove fails for
          LET done == RemoveFiles(ro[2], fails) IN
          /\ Cardinality(fails) <= Budget - Cost(ro[3])
          /\ faults' = faults + Cost(ro[3]) + Cardinality(fails)
          /\ store' = [store EXCEPT ![f] = DropOldest(@, ro[1])]
          /\ removeOldExact' = (removeOldExact /\ Cardinality(store'[f]) <= n)
          /\ lastTrim' = [feed |-> f, keepArg |-> n, err |-> ro[3], files |-> ro[2],
                          fails |-> fails, attempts |-> done[1], removed |-> done[2]]
          /\ allStats' = [allStats EXCEPT !.removed = @ + done[2]]
          /\ tickLog' = [tickLog EXCEPT ![f].trimmed = ro[1],
                                        ![f].mutated = @ \/ ro[1] > 0]
    /\ phase' = "rss"
    /\ UNCHANGED << marks, history >>
    /\ UNCHANGED << feedIdx, entries, i, changed, processed, last >>
    /\ UNCHANGED doVars
    /\ UNCHANGED envVars

\* RSSFeed: <<failed, items>>; "" (no items) for no entries, else one item per entry
RSSFeed(loaded) == IF loaded < 0 THEN << TRUE, 0 >> ELSE << FALSE, loaded >>

\* rss, rssErr := s.RSSFeed(feedInfo); without error s.RSSFileStore.Save(feedInfo.ID, rss)
ProcRSS ==
    /\ doPC = "proc" /\ phase = "rss"
    /\ LET fi == Feeds[feedIdx]
           f == fi.ID
       IN
       \E loaded \in StoreLoad(f, RSSFeedMax(fi), Budget) :
          LET rss == RSSFeed(loaded) IN
          /\ faults' = faults + Cost(loaded # Min(RSSFeedMax(fi), Cardinality(store[f])))
          /\ tickLog' = [tickLog EXCEPT ![f].state = "done",
                                     ![f].loaded = loaded,
                                     ![f].published =
                                         IF PublishRSS(rss[1], rss[2]) THEN rss[2] ELSE 0 - 1]
    /\ NextFeed
    /\ UNCHANGED allStats
    /\ UNCHANGED << store, marks, removeOldExact, history >>
    /\ UNCHANGED doVars
    /\ UNCHANGED envVars

\* all feeds done: the statistics are logged and procChannels returns nil
ProcReturn ==
    /\ doPC = "proc" /\ phase = "end"
    /\ doPC' = "select"
    /\ running' = running - 1
    /\ UNCHANGED << ret, passes, ticksConsumed >>
    /\ UNCHANGED procVars
    /\ UNCHANGED storeVars
    /\ UNCHANGED envVars

Next ==
    \/ DoStart
    \/ DoSelectTick
    \/ DoSelectCancel
    \/ Cancel
    \/ TimerFire
    \/ ProcList
    \/ ProcEntry
    \/ ProcAfter
    \/ removeOld
    \/ ProcRSS
    \/ ProcReturn

Spec == Init /\ [][Next]_vars

\* Every call the pass makes returns, so a pass in progress takes its next step; Do
\* starts; and the select, which picks at random among its ready cases, does not
\* pass over a closed ctx.Done() for ever.
ProcStep == ProcList \/ ProcEntry \/ ProcAfter \/ removeOld \/ ProcRSS \/ ProcReturn

Fairness == WF_vars(DoStart) /\ WF_vars(ProcStep) /\ SF_vars(DoSelectCancel)

\* The schedule of Do does not depend on what the store holds: the liveness of Do is
\* checked from the stores that hold keep+1 of the listed videos.
LiveInit == Init /\ \A f \in FeedIDs : store[f] \in {Oldest(f), Newest(f)}

LiveSpec == LiveInit /\ [][Next]_vars /\ Fairness

\* The end-to-end scenario: the last feed (keep=2) holds three entries without
\* markers, its channel lists one newer video and then those three; the feed before
\* it lists nothing.
ScenarioFeed == Feeds[NumFeeds]

ScenarioListing == SortDesc(Oldest(ScenarioFeed.ID) \cup {MaxOf(Oldest(ScenarioFeed.ID)) + 1})

ScenarioInit ==
    /\ store = [f \in FeedIDs |-> Oldest(f)]
    /\ marks = [f \in FeedIDs |-> {}]
    /\ script = [free |-> FALSE,
                 listing |-> [f \in FeedIDs |->
                                 IF f = ScenarioFeed.ID THEN ScenarioListing ELSE << >>]]
    /\ Constructed

ScenarioSpec == ScenarioInit /\ [][Next]_vars

\* --------------------------------------------------- the published time
\* Lines 213-224 of procChannels for one downloaded entry, in hours: the entry comes
\* back from Downloader.Get with the Published time of the listing, and is handed to
\* Store.Save with the Published time the code leaves it with.  The clock is read by
\* time.Since and again by time.Now and may have moved on in between.
Horizon == MaxDays * Day

StampDownloaded ==
    /\ stamp.at = "none"
    /\ \E since \in Horizon..(Horizon + 1), off \in (0 - Horizon)..Horizon :
          stamp' = [at |-> "downloaded", published |-> since + off, since |-> since,
                    now |-> since, saved |-> 0]
    /\ UNCHANGED << cancelled, tickC, script >>
    /\ UNCHANGED storeVars
    /\ UNCHANGED doVars
    /\ UNCHANGED procVars

StampSaved ==
    /\ stamp.at = "downloaded"
    /\ \E now \in stamp.since..(stamp.since + 1) :
          stamp' = [stamp EXCEPT !.at = "saved", !.now = now,
                                 !.saved = ResetPublished(stamp.published, stamp.since, now)]
    /\ UNCHANGED << cancelled, tickC, script >>
    /\ UNCHANGED storeVars
    /\ UNCHANGED doVars
    /\ UNCHANGED procVars

StampNext == StampDownloaded \/ StampSaved

StampSpec == Init /\ [][StampNext]_vars

\* ----------------------------------------------------------------------
\* Properties
\* ----------------------------------------------------------------------
Count(f) == Cardinality(store[f])

\* C1, as stated: an entry for which Store.Exist returned true, or Store.CheckProcessed
\* returned found=true, is not downloaded in that tick and is counted as skipped.
C1_AsStated ==
    (last.exists \/ last.found) =>
        (~last.dlCalled /\ last.outcome = "skipped" /\ allStats.skipped > 0)

\* C1, amended: an entry for which Store.Exist returned true, or Store.CheckProcessed
\* returned found=true and no error, is not downloaded in that tick and is counted
\* as skipped.
C1_DuplicateNotDownloaded ==
    (last.exists \/ (last.found /\ ~last.procErr)) =>
        (~last.dlCalled /\ last.outcome = "skipped" /\ allStats.skipped > 0)

C1_Witness ==
    last.outcome = "skipped" /\ last.cpCalled /\ last.found /\ ~last.procErr

\* C2: at every point of the entry loop of a feed the number of entries handled
\* (downloaded or skipped as duplicate) is at most keep(feed); an entry is examined
\* only while that number is below keep(feed), and the loop breaks when it is reached.
C2_HandledAtMostKeep ==
    /\ phase \in {"loop", "after"} => processed <= keep(Feeds[feedIdx])
    /\ last.existCalled => last.before < keep(FeedByID(last.feed))
    /\ last.outcome = "break" => last.before = keep(FeedByID(last.feed))
    /\ last.outcome \in {"skipped", "added"} => processed = last.before + 1
    /\ last.outcome = "ignored" => processed = last.before

C2_Witness ==
    last.outcome = "break" /\ last.before = 2 /\ allStats.ignored > 0

\* C3, as stated: in every tick a feed's document is handed to RSSFileStore.Save if
\* and only if the set of entries stored for the channel changed in that tick.
C3_AsStated ==
    \A f \in FeedIDs :
        tickLog[f].state # "pending" =>
            ((tickLog[f].published >= 0) <=> tickLog[f].mutated)

\* C3, amended: in every tick in which the processing of a feed runs to its end, the
\* feed's document is handed to RSSFileStore.Save if and only if some Store.Save for
\* an entry of the feed returned without error in that tick (whether or not it
\* inserted a new entry) and the rendering did not fail on Store.Load (loaded = -1).
C3_PublishedIffSaved ==
    \A f \in FeedIDs :
        tickLog[f].state = "done" =>
            ((tickLog[f].published >= 0) <=> (tickLog[f].saved /\ tickLog[f].loaded # -1))

C3_Witness ==
    \E f \in FeedIDs :
        /\ tickLog[f].state = "done" /\ tickLog[f].saved
        /\ ~tickLog[f].mutated /\ tickLog[f].published >= 0

\* C4, as stated: whenever no pass is in progress (before the first pass, between
\* ticks, after Do has returned for any reason) every channel holds at most keep+1
\* entries, provided it started so and every RemoveOld kept exactly what was asked.
C4_AsStated ==
    (doPC \in {"start", "select", "returned"} /\ removeOldExact) =>
        \A k \in 1..NumFeeds : Count(Feeds[k].ID) <= keep(Feeds[k]) + 1

\* C4, amended: whenever no pass is in progress and no pass was aborted by a failing
\* Store.Save (before the first pass, between ticks, after Do has returned the
\* cancellation cause) every channel holds at most keep+1 entries, provided it
\* started so and every RemoveOld kept exactly what was asked.
C4_BoundedBetweenPasses ==
    ((doPC \in {"start", "select"} \/ (doPC = "returned" /\ ret = "ctxErr"))
        /\ removeOldExact) =>
        \A k \in 1..NumFeeds : Count(Feeds[k].ID) <= keep(Feeds[k]) + 1

C4_Witness ==
    /\ doPC = "select" /\ removeOldExact
    /\ \E k \in 1..NumFeeds :
          /\ tickLog[Feeds[k].ID].trimmed > 0
          /\ Count(Feeds[k].ID) = keep(Feeds[k]) + 1

\* C5, as stated: removeOld calls Store.RemoveOld(feedID, keep+1), and right after
\* the trim the store holds at most keep+1 entries of the channel.
C5_AsStated ==
    (doPC = "proc" /\ phase = "rss") =>
        /\ lastTrim.feed = Feeds[feedIdx].ID
        /\ lastTrim.keepArg = keep(Feeds[feedIdx]) + 1
        /\ Count(Feeds[feedIdx].ID) <= keep(Feeds[feedIdx]) + 1

\* C5, amended: removeOld calls Store.RemoveOld(feedID, keep+1), and right after the
\* trim the store holds at most keep+1 entries of the channel when Store.RemoveOld
\* returned no error.
C5_TrimKeepsOneMore ==
    (doPC = "proc" /\ phase = "rss") =>
        /\ lastTrim.feed = Feeds[feedIdx].ID
        /\ lastTrim.keepArg = keep(Feeds[feedIdx]) + 1
        /\ ~lastTrim.err => Count(Feeds[feedIdx].ID) <= keep(Feeds[feedIdx]) + 1

C5_Witness ==
    /\ doPC = "proc" /\ phase = "rss"
    /\ ~lastTrim.err /\ lastTrim.files > 0
    /\ Count(Feeds[feedIdx].ID) = keep(Feeds[feedIdx]) + 1

\* C6, as stated: when Store.Load returns no entries for a changed feed, RSSFeed
\* returns the empty document without error and RSSFileStore.Save is not called for
\* the feed in that tick.
C6_AsStated ==
    \A f \in FeedIDs : tickLog[f].loaded = 0 => tickLog[f].published < 0

\* C7: Do runs one full pass at once, before it waits for any timer signal, and then
\* one pass per timer signal it receives; once ctx is cancelled Do returns in the
\* end, and unless a pass failed it returns ctx.Err().
C7_DoSchedule ==
    /\ [](doPC = "start" => passes = 0 /\ ticksConsumed = 0)
    /\ [](doPC # "start" => passes = ticksConsumed + 1)
    /\ [](doPC = "select" => \A f \in FeedIDs : tickLog[f].state # "pending")
    /\ []((doPC = "returned" /\ last.outcome # "fatal") => (ret = "ctxErr" /\ cancelled))
    /\ (cancelled ~> doPC = "returned")

C7_Witness ==
    doPC = "returned" /\ ret = "ctxErr" /\ passes = 2 /\ ticksConsumed = 1

\* C8: a failing Store.Save aborts the run: Do returns the wrapped error at once, and
\* from then on nothing is listed, downloaded, saved, trimmed or published and no
\* pass is started.
C8_SaveErrorAborts ==
    /\ [](last.saveErr => (doPC = "returned" /\ ret = "procErr"))
    /\ [](ret = "procErr" => (last.saveErr /\ last.outcome = "fatal"))
    /\ [][doPC = "returned" =>
            UNCHANGED << store, marks, removeOldExact, faults, doPC, ret, passes,
                         ticksConsumed, running, tickC, feedIdx, phase, entries, i,
                         changed, processed, allStats, last, lastTrim, tickLog,
                         history, stamp, script >>]_vars

C8_Witness ==
    /\ ret = "procErr" /\ feedIdx = 1 /\ i < Len(entries)
    /\ ~tickLog[Feeds[2].ID].listed /\ tickC = 1

\* C9: ctx is looked at only by the select between passes: when Do has returned
\* ctx.Err(), the pass before it has visited every feed and has trimmed and rendered
\* every changed one, and Do returns ctx.Err() from the select only.
C9_CancelBetweenPasses ==
    /\ [](ret = "ctxErr" =>
            \A f \in FeedIDs :
                /\ tickLog[f].state # "pending"
                /\ tickLog[f].saved => (tickLog[f].trimmed >= 0 /\ tickLog[f].loaded >= 0 - 1))
    /\ [][(ret # "ctxErr" /\ ret' = "ctxErr") => (doPC = "select" /\ running = 0)]_vars

C9_Witness ==
    /\ cancelled /\ doPC = "proc" /\ passes = 1
    /\ feedIdx = NumFeeds /\ phase = "rss"

\* C10: at most one pass runs at any time, and however often the timer fires during
\* a pass, at most one signal is pending in tick.C.
C10_NoPileUp ==
    /\ running <= 1
    /\ (running = 1) <=> (doPC = "proc")
    /\ tickC <= 1

C10_Witness ==
    tickC = 1 /\ doPC = "proc" /\ passes = 2

\* C11: when ChannelService.Get fails for a feed, the pass goes on with the next feed
\* (or ends, after the last one) and does not return; nothing is saved, trimmed,
\* loaded or published for the feed in that tick and no entry of it is examined; and
\* a pass that ends has visited every configured feed.
C11_ListFailureSkipsFeed ==
    /\ [](\A k \in 1..NumFeeds :
            tickLog[Feeds[k].ID].state = "listfail" =>
                /\ ~tickLog[Feeds[k].ID].saved
                /\ tickLog[Feeds[k].ID].trimmed = 0 - 1
                /\ tickLog[Feeds[k].ID].loaded = 0 - 2
                /\ tickLog[Feeds[k].ID].published = 0 - 1
                /\ last.feed # Feeds[k].ID /\ lastTrim.feed # Feeds[k].ID
                /\ (doPC = "proc" => (feedIdx > k \/ phase = "end")))
    /\ [](doPC = "select" => \A f \in FeedIDs : tickLog[f].listed)
    /\ [][(\E f \in FeedIDs : tickLog[f].state # "listfail" /\ tickLog'[f].state = "listfail") =>
            /\ doPC' = "proc" /\ ret' = "none"
            /\ store' = store /\ marks' = marks
            /\ IF feedIdx < NumFeeds THEN feedIdx' = feedIdx + 1 /\ phase' = "list"
                                     ELSE phase' = "end"]_vars

C11_Witness ==
    /\ doPC = "select"
    /\ tickLog[Feeds[1].ID].state = "listfail"
    /\ tickLog[Feeds[2].ID].state = "done" /\ tickLog[Feeds[2].ID].published >= 0

\* C12: in the scenario (one active feed with keep=2, three entries stored, the
\* listing one new video followed by the three stored ones, no call failing), after
\* the first tick the store holds exactly 3 entries of the channel, a document of at
\* most 2 items has been handed to RSSFileStore.Save, and the statistics say added=1.
C12_EndToEnd ==
    (passes = 1 /\ doPC = "select" /\ faults = 0) =>
        /\ Count(ScenarioFeed.ID) = 3
        /\ tickLog[ScenarioFeed.ID].published \in 0..2
        /\ allStats.added = 1

C12_Witness ==
    /\ passes = 1 /\ doPC = "select" /\ faults = 0
    /\ keep(ScenarioFeed) = 2 /\ script.listing[ScenarioFeed.ID] = << 4, 3, 2, 1 >>
    /\ store[ScenarioFeed.ID] = {2, 3, 4}
    /\ tickLog[ScenarioFeed.ID].published = 2
    /\ allStats.added = 1 /\ allStats.skipped = 1 /\ allStats.removed = 1

\* C13, as stated: an error from Store.Exist or from Store.CheckProcessed, whatever
\* boolean comes with it, does not end the pass and does not make the entry a
\* duplicate: after an Exist error the entry goes on to CheckProcessed, after a
\* CheckProcessed error it goes on to the download.
C13_AsStated ==
    /\ (last.exErr \/ last.procErr) => (last.outcome = "fatal" => last.saveErr)
    /\ last.exErr => last.cpCalled
    /\ last.procErr => last.dlCalled

\* C14: a failed Downloader.Get counts the entry as ignored and not as handled, calls
\* neither Store.Save nor Store.SetProcessed and leaves store and markers as they
\* were, and the loop goes on; when the entry is examined again, is still neither
\* stored nor marked and both lookups answer without error, it is found new and its
\* download is attempted again.
C14_FailedDownloadRetried ==
    /\ [](last.dlErr =>
            /\ last.outcome = "ignored" /\ ~last.saveCalled /\ ~last.spCalled
            /\ processed = last.before /\ allStats.ignored >= 1
            /\ doPC = "proc" /\ phase \in {"loop", "after"}
            /\ << last.feed, last.vid >> \in history.dlFailed)
    /\ [][(last' # last /\ last'.dlErr) =>
            /\ store' = store /\ marks' = marks
            /\ allStats'.ignored = allStats.ignored + 1
            /\ allStats'.added = allStats.added /\ allStats'.skipped = allStats.skipped]_vars
    /\ [][(/\ last' # last /\ last'.existCalled
           /\ << last'.feed, last'.vid >> \in history.dlFailed
           /\ last'.vid \notin store[last'.feed] /\ last'.vid \notin marks[last'.feed]
           /\ ~last'.exErr /\ ~last'.procErr) =>
            (~last'.exists /\ last'.cpCalled /\ ~last'.found /\ last'.dlCalled)]_vars

C14_Witness ==
    /\ passes = 2 /\ << last.feed, last.vid >> \in history.dlFailed
    /\ last.dlCalled /\ last.outcome = "added"

C16_MarkedNeverDownloaded ==
    /\ []((last.outcome = "added" /\ ~last.spErr) => last.vid \in marks[last.feed])
    /\ [][(last' # last /\ last'.existCalled
              /\ last'.vid \in marks[last'.feed] /\ ~last'.procErr) =>
            (~last'.dlCalled /\ last'.outcome = "skipped")]_vars

C16_Witness ==
    /\ passes = 2 /\ last.feed = 1 /\ last.vid = 1
    /\ 1 \in marks[1] /\ 1 \notin store[1] /\ 1 \notin Newest(1)
    /\ ~last.exists /\ last.cpCalled /\ last.found /\ ~last.procErr
    /\ last.outcome = "skipped" /\ faults = 0

\* C17, as stated: the Published time handed to Store.Save is the current time when
\* the listed time is less than 24 hours away from now, before or after, and the
\* listed time otherwise.
C17_AsStated ==
    stamp.at = "saved" =>
        IF stamp.since - stamp.published < Day /\ stamp.published - stamp.since < Day
        THEN stamp.saved = stamp.now
        ELSE stamp.saved = stamp.published

\* C17, amended: the Published time handed to Store.Save is the listed time when
\* that is 24 hours or more before now, and the current time when it is less than 24
\* hours before now or lies in the future, however far.
C17_ResetUnlessOld ==
    stamp.at = "saved" =>
        /\ stamp.published <= stamp.since - Day => stamp.saved = stamp.published
        /\ stamp.published > stamp.since - Day => stamp.saved = stamp.now

C17_Witness ==
    /\ stamp.at = "saved"
    /\ stamp.published = stamp.since + MaxDays * Day
    /\ stamp.saved = stamp.now /\ stamp.saved # stamp.published

\* C18: removeOld calls os.Remove once for every path Store.RemoveOld returned, with
\* or without an error from RemoveOld and whichever of the calls fail; it returns the
\* number of calls that succeeded, and that is what the pass adds to removed.
C18_EveryFileAttempted ==
    /\ [](lastTrim.feed # 0 =>
            /\ lastTrim.attempts = lastTrim.files
            /\ lastTrim.removed = lastTrim.files - Cardinality(lastTrim.fails))
    /\ [][(phase = "trim" /\ phase' = "rss") =>
            allStats'.removed = allStats.removed + lastTrim'.removed]_vars

C18_Witness ==
    /\ lastTrim.files = 2 /\ lastTrim.fails = {1}
    /\ lastTrim.attempts = 2 /\ lastTrim.removed = 1 /\ allStats.removed = 1

\* C19: for every feed in a tick, Store.RemoveOld is called only after a Store.Save
\* of the feed succeeded, Store.Load only after RemoveOld, RSSFileStore.Save only
\* after a Load that returned; while the entries of the feed are processed none of
\* the three has been called, the trim starts when the entry loop is over, and a feed
\* that is done without a saved entry has had none of them.
C19_TrimRenderPublishOrder ==
    /\ \A f \in FeedIDs :
          /\ tickLog[f].trimmed >= 0 => tickLog[f].saved
          /\ tickLog[f].loaded # 0 - 2 => tickLog[f].trimmed >= 0
          /\ tickLog[f].published >= 0 => tickLog[f].loaded >= 0
          /\ (tickLog[f].state = "done" /\ ~tickLog[f].saved) =>
                (/\ tickLog[f].trimmed = 0 - 1 /\ tickLog[f].loaded = 0 - 2
                 /\ tickLog[f].published = 0 - 1)
    /\ (feedIdx >= 1 /\ phase \in {"list", "loop", "after"}) =>
          (/\ tickLog[Feeds[feedIdx].ID].trimmed = 0 - 1
           /\ tickLog[Feeds[feedIdx].ID].loaded = 0 - 2
           /\ tickLog[Feeds[feedIdx].ID].published = 0 - 1)
    /\ phase = "trim" =>
          (/\ tickLog[Feeds[feedIdx].ID].saved /\ i = 0 /\ last = NoLast
           /\ tickLog[Feeds[feedIdx].ID].trimmed = 0 - 1
           /\ tickLog[Feeds[feedIdx].ID].loaded = 0 - 2)
    /\ phase = "rss" =>
          (/\ tickLog[Feeds[feedIdx].ID].trimmed >= 0
           /\ tickLog[Feeds[feedIdx].ID].loaded = 0 - 2
           /\ tickLog[Feeds[feedIdx].ID].published = 0 - 1)

C19_Witness ==
    /\ doPC = "select"
    /\ tickLog[Feeds[1].ID].state = "done" /\ ~tickLog[Feeds[1].ID].saved
    /\ tickLog[Feeds[1].ID].trimmed = 0 - 1 /\ tickLog[Feeds[1].ID].loaded = 0 - 2
    /\ tickLog[Feeds[2].ID].saved /\ tickLog[Feeds[2].ID].trimmed >= 0
    /\ tickLog[Feeds[2].ID].loaded >= 0 /\ tickLog[Feeds[2].ID].published >= 0

\* C20: every pass starts with all its statistics at zero, and when a pass has ended
\* without a fatal error processed = added + skipped, over all feeds, which no more
\* exceeds the sum of the feeds' keep than one pass alone can make it.
SumKeep == keep(Feeds[1]) + keep(Feeds[2])

C20_FreshStatsAndSum ==
    /\ [][passes' # passes => allStats' = ZeroStats]_vars
    /\ [](doPC = "select" =>
            /\ allStats.processed = allStats.added + allStats.skipped
            /\ allStats.processed <= SumKeep
            /\ allStats.entries >= allStats.processed + allStats.ignored)

C20_Witness ==
    /\ doPC = "select" /\ passes = 2
    /\ allStats.added >= 1 /\ allStats.skipped >= 1 /\ allStats.ignored >= 1
    /\ allStats.processed = allStats.added + allStats.skipped

====
